---- MODULE Spec2Model ----
(***************************************************************************)
(* manifest-tool (src/src/main.rs): the generation of local manifests from *)
(* the manifests under .repo/manifests, and the bulk template mode.        *)
(*                                                                         *)
(* main runs once, from its first line to a return or a panic; pc is the   *)
(* place it is at.  What main reads comes into the state when main reads   *)
(* it: the command line and config.env at the start, the template and the  *)
(* default manifest when bulk mode starts, a manifest of .repo/manifests   *)
(* when its entry is reached.  The file system and the XML reader and      *)
(* writer do not fail here: an I/O or Deserialization error ends main the  *)
(* same way as the errors below and is left out.                           *)
(*                                                                         *)
(* A string is a sequence of tokens; a token stands for a run of           *)
(* characters that the program never looks into ("fetch_url", "origin"),   *)
(* or for one character it does look at ("=", "\n", "\r", "$"), or for one *)
(* placeholder ("${remote_name}").  Option<T> is a sequence of length 0    *)
(* (None) or 1 (Some).  A HashMap<String, String> is a function whose      *)
(* domain is a finite set of strings.                                      *)
(***************************************************************************)
EXTENDS Naturals, Sequences, FiniteSets, TLC

\* Bounds of the model.
MaxEntries == 2
MaxRemotes == 2
MaxProjects == 2

None == <<>>
Some(x) == <<x>>
IsSome(o) == o # <<>>
Unwrap(o) == o[1]

Ok(v) == [ok |-> TRUE, val |-> v]
Err(e) == [ok |-> FALSE, err |-> e]

NL == "\n"
CR == "\r"
EQ == "="

\* The variable names of the contexts, and the placeholder of each.
VarNames == {"remote_name", "push_url", "fetch_url", "project_name"}
Placeholder(k) ==
    CASE k = "remote_name" -> "${remote_name}"
      [] k = "push_url" -> "${push_url}"
      [] k = "fetch_url" -> "${fetch_url}"
      [] k = "project_name" -> "${project_name}"

\* Tokens that hold one of the characters $ { } .
ForbiddenTokens == {"$", "{", "}"} \cup {Placeholder(k) : k \in VarNames}
HasForbidden(s) == \E n \in 1..Len(s) : s[n] \in ForbiddenTokens

RECURSIVE Flatten(_)
Flatten(ss) == IF ss = <<>> THEN <<>> ELSE Head(ss) \o Flatten(Tail(ss))

\* envsubst::substitute(template, variables): every "${k}" with k a key of
\* variables is replaced by variables[k]; a placeholder of no key stays as it
\* is; a value holding $, { or } is an error.  With no variables the template
\* is returned as it is.
ReplaceToken(t, variables) ==
    IF \E k \in DOMAIN variables : t = Placeholder(k)
    THEN variables[CHOOSE k \in DOMAIN variables : t = Placeholder(k)]
    ELSE <<t>>
substitute(template, variables) ==
    IF DOMAIN variables = {} THEN Ok(template)
    ELSE IF \E k \in DOMAIN variables : HasForbidden(variables[k])
    THEN Err("Envsubst")
    ELSE Ok(Flatten([n \in 1..Len(template) |-> ReplaceToken(template[n], variables)]))

\* str::find(delim): the first position of delim, 0 when there is none.
Find(s, delim) ==
    IF \E n \in 1..Len(s) : s[n] = delim
    THEN CHOOSE n \in 1..Len(s) : s[n] = delim /\ \A m \in 1..(n - 1) : s[m] # delim
    ELSE 0

split_once(s, delim) ==
    LET idx == Find(s, delim)
    IN IF idx = 0 THEN None
       ELSE Some(<<SubSeq(s, 1, idx - 1), SubSeq(s, idx + 1, Len(s))>>)

\* A line that ended in "\n": a "\r" just before the "\n" is dropped too.
StripCR(line) ==
    IF line # <<>> /\ line[Len(line)] = CR THEN SubSeq(line, 1, Len(line) - 1) ELSE line

\* BufRead::lines(): the text cut at each "\n", and at "\r\n"; a final "\n"
\* ends the last line and starts no new one.  A "\r" that no "\n" follows
\* stays in its line.
RECURSIVE Lines(_)
Lines(text) ==
    IF text = <<>> THEN <<>>
    ELSE LET idx == Find(text, NL)
         IN IF idx = 0 THEN <<text>>
            ELSE <<StripCR(SubSeq(text, 1, idx - 1))>>
                     \o Lines(SubSeq(text, idx + 1, Len(text)))

EmptyMap == [k \in {} |-> <<>>]
Insert(map, key, value) ==
    [k \in DOMAIN map \cup {key} |-> IF k = key THEN value ELSE map[k]]
Get(map, key) == IF key \in DOMAIN map THEN Some(map[key]) ELSE None

RECURSIVE ReadLines(_, _)
ReadLines(lines, map) ==
    IF lines = <<>> THEN Ok(map)
    ELSE LET kv == split_once(Head(lines), EQ)
         IN IF IsSome(kv)
            THEN ReadLines(Tail(lines), Insert(map, Unwrap(kv)[1], Unwrap(kv)[2]))
            ELSE Err("ConfigFileFormat")
\* read_dot_env passing over the lines that have no "=".
read_dot_env_skipping(fd) ==
    ReadLines(SelectSeq(Lines(fd), LAMBDA line : Find(line, EQ) # 0), EmptyMap)

read_dot_env(fd) == ReadLines(Lines(fd), EmptyMap)

\* Extend with the precedence the wrong way round: an entry of the config
\* file is kept.
ExtendKeepsConfig(config_map, args_map) ==
    [k \in DOMAIN config_map \cup DOMAIN args_map |->
        IF k \in DOMAIN config_map THEN config_map[k] ELSE args_map[k]]

Extend(config_map, args_map) ==
    [k \in DOMAIN config_map \cup DOMAIN args_map |->
        IF k \in DOMAIN args_map THEN args_map[k] ELSE config_map[k]]

\* ReviewProtocolType::from_str: the enumerated tags; any other text is an error.
ReviewProtocolTags == {<<"gerrit">>}
ReviewProtocolFromStr(s) == IF s \in ReviewProtocolTags THEN Ok(s) ELSE Err("Parse")

(***************************************************************************)
(* The inputs of a run.                                                    *)
(***************************************************************************)
Origin == <<"origin">>
Mirror == <<"mirror">>
BadName == <<"$", "x">>
RemoteNames == {Origin, Mirror, BadName}

NoDup(s) == \A m, n \in 1..Len(s) : s[m] = s[n] => m = n
SeqsUpTo(S, max) == UNION {[1..n -> S] : n \in 0..max}

\* A <remote> of an upstream manifest.
UpstreamRemote(name, fetch, pushurl) == [name |-> name, fetch |-> fetch, pushurl |-> pushurl]
UpstreamOf(name) == UpstreamRemote(name, <<"https://upstream/">> \o name, None)

\* The manifests under .repo/manifests: the generation reads only the names
\* of their remotes.
GenManifests ==
    {m \in SeqsUpTo({UpstreamOf(n) : n \in RemoteNames}, MaxRemotes) :
        NoDup([n \in 1..Len(m) |-> m[n].name])}

\* The entries of .repo/manifests, in the order read_dir yields them: entry n
\* is the file of stem n, with the extension dir[n].
Dirs == SeqsUpTo({"xml", "txt"}, MaxEntries)

\* The texts of config.env.
ConfigTexts ==
    { <<>>,
      <<"fetch_url", EQ, "https://example.com/", "${remote_name}", ".git">>,
      <<"push_url", EQ, "ssh://", "${remote_name}", "/push">>,
      <<"badline">>,
      <<"fetch_url", EQ>>,
      <<"fetch_url", EQ, "a", EQ, "b", NL, "push_url", EQ, "p", NL,
        "review_url", EQ, "r", NL, "review_protocol", EQ, "gerrit", NL>>,
      <<"fetch_url", EQ, "a", NL, NL>>,
      <<"fetch_url", EQ, "a", CR, NL, "push_url", EQ, "p", CR, CR, NL, "review_url", EQ, "r", CR>>,
      <<"fetch_url", EQ, "${push_url}", NL, "fetch_url", EQ, "last">> }

\* The command lines of a generation run.
GenArgs ==
    [ push_url : {None, Some(<<"ssh://cli/", "${remote_name}">>)},
      fetch_url : {None, Some(<<>>), Some(<<"https://override.example/", "${remote_name}">>)},
      review_url : {None, Some(<<"gerrit">>), Some(<<"https://review/", "${remote_name}">>)},
      review_protocol : {None, Some(<<"gerrit">>)},
      envsubst_all_projects : {None},
      manifest_files : {<<>>, <<"default.xml">>} ]

\* The default manifest of a bulk run, after set_defaults.
BulkRemotes ==
    { UpstreamRemote(Origin, <<"https://upstream/origin">>, None),
      UpstreamRemote(Origin, <<"https://upstream/origin#2">>, Some(<<"ssh://upstream/origin">>)),
      UpstreamRemote(Mirror, <<"https://upstream/", "$", "mirror">>, None) }
BulkProjects ==
    [name : {<<"app">>, <<"lib">>}, remote : {None, Some(Origin), Some(Mirror)}]
BulkManifests ==
    [remotes : SeqsUpTo(BulkRemotes, MaxRemotes), projects : SeqsUpTo(BulkProjects, MaxProjects)]
UpstreamManifests == [remotes : GenManifests, projects : {<<>>}]
Templates ==
    { <<>>,
      <<"project=", "${project_name}", " remote=", "${remote_name}", NL>>,
      <<"${project_name}", " ", "${fetch_url}", NL>>,
      <<"push=", "${push_url}", NL>>,
      <<"plain">> }
BulkArgs ==
    [ push_url : {None}, fetch_url : {None}, review_url : {None}, review_protocol : {None},
      envsubst_all_projects : {Some(<<"bulk.tmpl">>)},
      manifest_files : {<<>>} ]
NoManifest == [remotes |-> <<>>, projects |-> <<>>]

(***************************************************************************)
(* The state of a run.                                                     *)
(***************************************************************************)
VARIABLES
    args,        \* the parsed command line
    config_str,  \* the text of config.env
    dir,         \* the entries of .repo/manifests
    template,    \* the text of the template, in bulk mode
    manifest,    \* the manifest parsed last
    pc,          \* where main is
    i,           \* the entry of dir main is at
    j,           \* the remote of that entry's manifest main is at
    k,           \* the project main is at, in bulk mode
    remotes,     \* the local remotes collected for the entry
    config,      \* the final mapping of the last remote resolved, if it got one
    files,       \* .repo/local_manifests: the file of each stem
    stdout,      \* what was written to the standard output
    result       \* "running", "Ok", the error main returned, or "Panic"

vars == <<args, config_str, dir, template, manifest, pc, i, j, k, remotes, config, files, stdout, result>>
inputs == <<args, config_str, dir>>

Absent == [state |-> "absent", remotes |-> <<>>]
Old == [state |-> "old", remotes |-> <<>>]
Created == [state |-> "created", remotes |-> <<>>]
Written(rs) == [state |-> "written", remotes |-> rs]

\* Before the run: the local manifests of the odd stems are there from an
\* earlier run, those of the even stems are not.
FilesBefore == [n \in 1..MaxEntries |-> IF n % 2 = 1 THEN Old ELSE Absent]

Init ==
    /\ \/ /\ args \in GenArgs
          /\ config_str \in ConfigTexts
          /\ dir \in Dirs
       \/ /\ args \in BulkArgs
          /\ config_str = <<>>
          /\ dir = <<>>
    /\ template = <<>>
    /\ manifest = NoManifest
    /\ pc = "start"
    /\ i = 0 /\ j = 0 /\ k = 0
    /\ remotes = <<>>
    /\ config = None
    /\ files = FilesBefore
    /\ stdout = <<>>
    /\ result = "running"

Finish(r) == pc' = "done" /\ result' = r

\* main, lines 103-121: bulk mode is chosen; the template and the default
\* manifest are read.
StartBulk ==
    /\ pc = "start"
    /\ IsSome(args.envsubst_all_projects)
    /\ template' \in Templates
    /\ manifest' \in BulkManifests
    /\ pc' = "bulk" /\ k' = 1
    /\ UNCHANGED <<inputs, i, j, remotes, config, files, stdout, result>>

\* main, lines 142 and 228: free manifest files are given, nothing is done.
SkipGeneration ==
    /\ pc = "start"
    /\ ~IsSome(args.envsubst_all_projects)
    /\ args.manifest_files # <<>>
    /\ Finish("Ok")
    /\ UNCHANGED <<inputs, template, manifest, i, j, k, remotes, config, files, stdout>>

\* main, lines 142-144: the entries of .repo/manifests are read.
StartGeneration ==
    /\ pc = "start"
    /\ ~IsSome(args.envsubst_all_projects)
    /\ args.manifest_files = <<>>
    /\ pc' = "entries" /\ i' = 1
    /\ UNCHANGED <<inputs, template, manifest, j, k, remotes, config, files, stdout, result>>

\* main, lines 144-157: the next entry; an xml file is parsed and its local
\* manifest is created (File::create makes the file, or cuts it to nothing).
\* remotes and config are locals of the loop body: they start anew.
NextEntry ==
    /\ pc = "entries"
    /\ i <= Len(dir)
    /\ IF dir[i] = "xml"
       THEN /\ manifest' \in UpstreamManifests
            /\ files' = [files EXCEPT ![i] = Created]
            /\ remotes' = <<>>
            /\ config' = None
            /\ j' = 1
            /\ pc' = "remotes"
            /\ UNCHANGED i
       ELSE /\ i' = i + 1
            /\ UNCHANGED <<manifest, files, remotes, config, j, pc>>
    /\ UNCHANGED <<inputs, template, k, stdout, result>>

\* main, lines 144 and 228: no entry is left.
EndGeneration ==
    /\ pc = "entries"
    /\ i > Len(dir)
    /\ Finish("Ok")
    /\ UNCHANGED <<inputs, template, manifest, i, j, k, remotes, config, files, stdout>>

\* main, lines 160-161.
RemoteContext(name) == [v \in {"remote_name"} |-> name]

\* main, lines 164-189: the mapping of the command line's values.
args_map(a, context) ==
    LET push == IF IsSome(a.push_url) THEN Some(substitute(Unwrap(a.push_url), context)) ELSE None
        fetch == IF IsSome(a.fetch_url) THEN Some(substitute(Unwrap(a.fetch_url), context)) ELSE None
        review == IF IsSome(a.review_url) THEN Some(substitute(Unwrap(a.review_url), context)) ELSE None
        m1 == IF IsSome(push) /\ Unwrap(push).ok
              THEN Insert(EmptyMap, <<"push_url">>, Unwrap(push).val) ELSE EmptyMap
        m2 == IF IsSome(fetch) /\ Unwrap(fetch).ok
              THEN Insert(m1, <<"fetch_url">>, Unwrap(fetch).val) ELSE m1
        m3 == IF IsSome(review) /\ Unwrap(review).ok
              THEN Insert(m2, <<"review_url">>, Unwrap(review).val) ELSE m2
        m4 == IF IsSome(a.review_url)
              THEN Insert(m3, <<"review_protocol">>, Unwrap(a.review_url)) ELSE m3
    IN IF \E r \in {push, fetch, review} : IsSome(r) /\ ~Unwrap(r).ok
       THEN Err("Envsubst")
       ELSE Ok(m4)

\* main, lines 193-204: the local remote of the final mapping.
local_remote(name, map) ==
    [ name |-> name,
      pushurl |-> Get(map, <<"push_url">>),
      fetch |-> map[<<"fetch_url">>],
      review |-> Get(map, <<"review_url">>),
      review_protocol |-> Get(map, <<"review_protocol">>),
      override |-> TRUE ]

\* main, lines 160-191: the final mapping of a remote, the config file's
\* mapping with the command line's laid over it.
FinalMapping(name, text, a) ==
    LET context == RemoteContext(name)
        config_subst == substitute(text, context)
        parsed == read_dot_env(config_subst.val)
        overrides == args_map(a, context)
    IN IF ~config_subst.ok THEN Err("Envsubst")
       ELSE IF ~parsed.ok THEN Err("ConfigFileFormat")
       ELSE IF ~overrides.ok THEN Err("Envsubst")
       ELSE Ok(Extend(parsed.val, overrides.val))

\* BuildRemote taking an empty fetch URL where the mapping has none.
BuildRemoteDefaultFetch(name, final) ==
    IF <<"review_protocol">> \in DOMAIN final
       /\ ~ReviewProtocolFromStr(final[<<"review_protocol">>]).ok
    THEN Err("Panic")
    ELSE Ok([ name |-> name,
              pushurl |-> Get(final, <<"push_url">>),
              fetch |-> IF <<"fetch_url">> \in DOMAIN final THEN final[<<"fetch_url">>] ELSE <<>>,
              review |-> Get(final, <<"review_url">>),
              review_protocol |-> Get(final, <<"review_protocol">>),
              override |-> TRUE ])

\* main, lines 192-208: the local remote is built, or the run fails; unwrap
\* panics on a review protocol that is no tag.
BuildRemote(name, final) ==
    IF <<"fetch_url">> \notin DOMAIN final
    THEN Err("FetchRequired")
    ELSE IF <<"review_protocol">> \in DOMAIN final
            /\ ~ReviewProtocolFromStr(final[<<"review_protocol">>]).ok
    THEN Err("Panic")
    ELSE Ok(local_remote(name, final))

\* Fail giving up the entry only: the error is kept and the next entry is read.
FailKeepsGoing(e) == pc' = "entries" /\ result' = e /\ i' = i + 1

\* main returns the error e (the ? operator, return Err), or panics.
Fail(e) == pc' = "done" /\ result' = e /\ UNCHANGED i

\* main, lines 158-209: the next remote of the entry's manifest.
ResolveRemote ==
    /\ pc = "remotes"
    /\ j <= Len(manifest.remotes)
    /\ LET name == manifest.remotes[j].name
           final == FinalMapping(name, config_str, args)
           built == BuildRemote(name, final.val)
       IN /\ config' = IF final.ok THEN Some(final.val) ELSE None
          /\ IF final.ok /\ built.ok
             THEN /\ remotes' = Append(remotes, built.val)
                  /\ j' = j + 1
                  /\ UNCHANGED <<pc, result, i>>
             ELSE /\ Fail(IF final.ok THEN built.err ELSE final.err)
                  /\ UNCHANGED <<remotes, j>>
    /\ UNCHANGED <<inputs, template, manifest, k, files, stdout>>

\* main, lines 210-223: the local manifest of the entry is written.
WriteManifest ==
    /\ pc = "remotes"
    /\ j > Len(manifest.remotes)
    /\ files' = [files EXCEPT ![i] = Written(remotes)]
    /\ i' = i + 1
    /\ pc' = "entries"
    /\ UNCHANGED <<inputs, template, manifest, j, k, remotes, config, stdout, result>>

\* main, lines 116-119: the remotes by name; a later remote of a name
\* replaces an earlier one.
remote_hash(rs) ==
    [n \in {rs[x].name : x \in 1..Len(rs)} |->
        rs[CHOOSE x \in 1..Len(rs) :
            rs[x].name = n /\ \A y \in (x + 1)..Len(rs) : rs[y].name # n]]

\* ProjectContext without the push URL of the project's remote.
ProjectContextNoPush(project, hash) ==
    LET c1 == IF IsSome(project.remote)
              THEN [v \in {"remote_name"} |-> Unwrap(project.remote)] ELSE [v \in {} |-> <<>>]
        found == IsSome(project.remote) /\ Unwrap(project.remote) \in DOMAIN hash
        c3 == IF found
              THEN [v \in DOMAIN c1 \cup {"fetch_url"} |->
                       IF v = "fetch_url" THEN hash[Unwrap(project.remote)].fetch ELSE c1[v]]
              ELSE c1
    IN [v \in DOMAIN c3 \cup {"project_name"} |->
           IF v = "project_name" THEN project.name ELSE c3[v]]

\* main, lines 123-133: the context of a project.
ProjectContext(project, hash) ==
    LET c0 == [v \in {} |-> <<>>]
        c1 == IF IsSome(project.remote)
              THEN [v \in {"remote_name"} |-> Unwrap(project.remote)] ELSE c0
        found == IsSome(project.remote) /\ Unwrap(project.remote) \in DOMAIN hash
        remote == hash[Unwrap(project.remote)]
        c2 == IF found /\ IsSome(remote.pushurl)
              THEN [v \in DOMAIN c1 \cup {"push_url"} |->
                       IF v = "push_url" THEN Unwrap(remote.pushurl) ELSE c1[v]]
              ELSE c1
        c3 == IF found
              THEN [v \in DOMAIN c2 \cup {"fetch_url"} |->
                       IF v = "fetch_url" THEN remote.fetch ELSE c2[v]]
              ELSE c2
    IN [v \in DOMAIN c3 \cup {"project_name"} |->
           IF v = "project_name" THEN project.name ELSE c3[v]]

\* envsubst_write, lines 81-88.
envsubst_write(template_string, output, contents) ==
    LET s == substitute(template_string, contents)
    IN IF s.ok THEN Ok(output \o s.val) ELSE Err("Envsubst")

\* main, lines 122-135: the template is rendered for the next project.
BulkProject ==
    /\ pc = "bulk"
    /\ k <= Len(manifest.projects)
    /\ LET context == ProjectContext(manifest.projects[k], remote_hash(manifest.remotes))
           w == envsubst_write(template, stdout, context)
       IN IF w.ok
          THEN /\ stdout' = w.val
               /\ k' = k + 1
               /\ UNCHANGED <<pc, result>>
          ELSE /\ Finish("Envsubst")
               /\ UNCHANGED <<stdout, k>>
    /\ UNCHANGED <<inputs, template, manifest, i, j, remotes, config, files>>

\* main, line 136: the output is flushed.
BulkFlush ==
    /\ pc = "bulk"
    /\ k > Len(manifest.projects)
    /\ Finish("Ok")
    /\ UNCHANGED <<inputs, template, manifest, i, j, k, remotes, config, files, stdout>>

Next ==
    \/ StartBulk
    \/ SkipGeneration
    \/ StartGeneration
    \/ NextEntry
    \/ EndGeneration
    \/ ResolveRemote
    \/ WriteManifest
    \/ BulkProject
    \/ BulkFlush

Spec == Init /\ [][Next]_vars

(***************************************************************************)
(* The claims.                                                             *)
(***************************************************************************)
IsBulk == IsSome(args.envsubst_all_projects)
OverrideKeys == {"fetch_url", "push_url", "review_url"}
CliOverride(key) ==
    CASE key = "fetch_url" -> args.fetch_url
      [] key = "push_url" -> args.push_url
      [] key = "review_url" -> args.review_url
RemoteField(r, key) ==
    CASE key = "fetch_url" -> Some(r.fetch)
      [] key = "push_url" -> r.pushurl
      [] key = "review_url" -> r.review

\* The config file's text for the remote called name, and its mapping.
SubstConfig(name) == substitute(config_str, RemoteContext(name))
FileMapping(name) == read_dot_env(SubstConfig(name).val)
FileDefines(key, name) ==
    /\ SubstConfig(name).ok
    /\ FileMapping(name).ok
    /\ <<key>> \in DOMAIN FileMapping(name).val
CliValue(key, name) == substitute(Unwrap(CliOverride(key)), RemoteContext(name)).val

\* The remote of the current manifest whose final mapping config holds.
LastResolved == manifest.remotes[IF pc = "done" /\ result # "Ok" THEN j ELSE j - 1].name
\* The remote at which a generation run failed.
FailedAtRemote == ~IsBulk /\ pc = "done" /\ result # "Ok"
FailedName == manifest.remotes[j].name
\* The remotes of the current manifest that were resolved and passed.
Passed == {x \in 1..Len(manifest.remotes) : x < j}
\* The local remotes written into local manifests.
WrittenRemotes ==
    UNION {{files[n].remotes[x] : x \in 1..Len(files[n].remotes)} : n \in DOMAIN files}
CollectedRemotes == {remotes[x] : x \in 1..Len(remotes)}

\* C1: when the command line gives fetch_url, push_url or review_url and the
\* substituted config file defines the same key, the final mapping and the
\* local remote built from it hold the command line's value, substituted
\* through the remote's context, and not the config file's value.
C1_CliOverridesConfigFile ==
    /\ \A r \in WrittenRemotes \cup CollectedRemotes : \A key \in OverrideKeys :
          (IsSome(CliOverride(key)) /\ FileDefines(key, r.name))
              => RemoteField(r, key) = Some(CliValue(key, r.name))
    /\ IsSome(config) =>
          \A key \in OverrideKeys :
              (IsSome(CliOverride(key)) /\ FileDefines(key, LastResolved))
                  => Get(Unwrap(config), <<key>>) = Some(CliValue(key, LastResolved))

\* A local manifest is written with a remote for which the command line and
\* the config file both give all three keys, with different values.
C1_Witness ==
    /\ pc = "done" /\ result = "Ok"
    /\ \E r \in WrittenRemotes : \A key \in OverrideKeys :
          /\ IsSome(CliOverride(key))
          /\ FileDefines(key, r.name)
          /\ FileMapping(r.name).val[<<key>>] # CliValue(key, r.name)
          /\ RemoteField(r, key) = Some(CliValue(key, r.name))

\* C2 (as claimed): when the resolver fails on a remote of a manifest file
\* (Config-File-Format, Substitution or Fetch-Required), the local manifest
\* of that file is as it was before the run.
C2_Original ==
    (FailedAtRemote /\ result \in {"ConfigFileFormat", "Envsubst", "FetchRequired"})
        => files[i] = FilesBefore[i]

\* The remote called name gets a final mapping, and it has no fetch_url.
LacksFetch(name) ==
    LET final == FinalMapping(name, config_str, args)
    IN final.ok /\ <<"fetch_url">> \notin DOMAIN final.val

\* C3: a remote whose final mapping has no fetch_url is never passed; the
\* run fails there with FetchRequired, no later remote of the manifest is
\* resolved and the local manifest of the file gets no remote list.
C3_FetchRequiredAborts ==
    ~IsBulk =>
        /\ \A x \in Passed : ~LacksFetch(manifest.remotes[x].name)
        /\ (FailedAtRemote /\ LacksFetch(FailedName)) => result = "FetchRequired"
        /\ result = "FetchRequired" =>
              /\ pc = "done"
              /\ LacksFetch(FailedName)
              /\ Len(remotes) = j - 1
              /\ files[i].state = "created"

\* The run failed with FetchRequired at a remote that another remote follows.
C3_Witness ==
    /\ result = "FetchRequired"
    /\ pc = "done"
    /\ j < Len(manifest.remotes)
    /\ files[i].state = "created"

\* C4 (as claimed): every remote written into a local manifest has a fetch
\* URL that is not empty.
C4_Original ==
    \A r \in WrittenRemotes : r.fetch # <<>>

\* Some line of text has no "=".
BadLine(text) == \E n \in 1..Len(Lines(text)) : Find(Lines(text)[n], EQ) = 0
\* The value the lines of text give to key: what follows the first "=" of
\* the last line whose part before its first "=" is key.
FileValue(key, text) ==
    LET ls == Lines(text)
        at == {n \in 1..Len(ls) :
                 Find(ls[n], EQ) > 0 /\ SubSeq(ls[n], 1, Find(ls[n], EQ) - 1) = <<key>>}
        last == CHOOSE n \in at : \A m \in at : m <= n
    IN IF at = {} THEN None
       ELSE Some(SubSeq(ls[last], Find(ls[last], EQ) + 1, Len(ls[last])))

\* C5 (as claimed): a generation run whose config file has a line without
\* "=" ends in ConfigFileFormat, whatever manifests are discovered.
C5_Original ==
    (~IsBulk /\ args.manifest_files = <<>> /\ pc = "done" /\ BadLine(config_str))
        => result = "ConfigFileFormat"

\* C5 (amended): the config file is parsed when a remote is resolved.  No
\* remote whose substituted config file has a line without "=" is passed:
\* the run fails there with ConfigFileFormat, and it fails so nowhere else.
\* A line with "=" is split at its first "=": where the command line gives
\* no value for a key, the local remote has the value of the config file.
C5_ConfigFileFormatAtRemote ==
    ~IsBulk =>
        /\ \A x \in Passed :
              /\ SubstConfig(manifest.remotes[x].name).ok
              /\ ~BadLine(SubstConfig(manifest.remotes[x].name).val)
        /\ (FailedAtRemote /\ SubstConfig(FailedName).ok /\ BadLine(SubstConfig(FailedName).val))
              => result = "ConfigFileFormat"
        /\ result = "ConfigFileFormat" =>
              /\ FailedAtRemote
              /\ SubstConfig(FailedName).ok
              /\ BadLine(SubstConfig(FailedName).val)
        /\ \A r \in WrittenRemotes \cup CollectedRemotes : \A key \in OverrideKeys :
              ~IsSome(CliOverride(key))
                  => RemoteField(r, key) = FileValue(key, SubstConfig(r.name).val)

\* The run failed with ConfigFileFormat at the first remote it resolved.
C5_Witness ==
    /\ result = "ConfigFileFormat"
    /\ pc = "done"
    /\ j = 1
    /\ BadLine(SubstConfig(FailedName).val)

\* The variables a template names, and those of them that the context of
\* project x does not have.
TemplateVars(t) == {v \in VarNames : \E n \in 1..Len(t) : t[n] = Placeholder(v)}
MissingVars(x) ==
    TemplateVars(template)
        \ DOMAIN ProjectContext(manifest.projects[x], remote_hash(manifest.remotes))

\* C6 (as claimed): in bulk mode no project whose context lacks a variable
\* of the template is passed, no placeholder is written to the output, and
\* the run fails with a substitution error at the first such project.
C6_Original ==
    (IsBulk /\ pc \in {"bulk", "done"}) =>
        /\ \A x \in 1..Len(manifest.projects) : x < k => MissingVars(x) = {}
        /\ \A n \in 1..Len(stdout) : stdout[n] \notin {Placeholder(v) : v \in VarNames}
        /\ (pc = "done" /\ \E x \in 1..Len(manifest.projects) : MissingVars(x) # {})
              => result = "Envsubst"

\* C7 (as claimed): after a FetchRequired failure every other xml file of
\* the directory has its local manifest written.
C7_Original ==
    (result = "FetchRequired" /\ pc = "done") =>
        \A n \in 1..Len(dir) : (n # i /\ dir[n] = "xml") => files[n].state = "written"

\* C7 (amended): a FetchRequired failure ends the whole run.  The xml files
\* read before the failing file have their local manifests written; no
\* file after it is read, and its local manifest is as before the run.
C7_FetchRequiredEndsRun ==
    result = "FetchRequired" =>
        /\ pc = "done"
        /\ \A n \in 1..Len(dir) :
              /\ (n < i /\ dir[n] = "xml") => files[n].state = "written"
              /\ n > i => files[n] = FilesBefore[n]

\* The run failed with FetchRequired at a file that another xml file follows.
C7_Witness ==
    /\ result = "FetchRequired"
    /\ pc = "done"
    /\ i < Len(dir)
    /\ dir[i + 1] = "xml"
    /\ files[i + 1] = FilesBefore[i + 1]

\* C8 (as claimed): a run that is not a bulk run and ends well has written
\* the local manifest of every xml file of the directory, and of no other
\* entry, also when free manifest files are given.
C8_Original ==
    (~IsBulk /\ pc = "done" /\ result = "Ok") =>
        \A n \in 1..Len(dir) :
            IF dir[n] = "xml" THEN files[n].state = "written" ELSE files[n] = FilesBefore[n]

\* The review protocol the remote called name is to get: the command
\* line's, and without one the config file's, if any.
ReviewProtocolKey == <<"review_protocol">>
ClaimedProtocol(name) ==
    IF IsSome(args.review_protocol) THEN args.review_protocol
    ELSE Get(FileMapping(name).val, ReviewProtocolKey)

\* C9 (as claimed): the final mapping's review_protocol is the command
\* line's review protocol when one is given, and otherwise the config
\* file's, if any (a review URL of the command line does not change it);
\* so is the review protocol of a local remote.
C9_Original ==
    /\ IsSome(config) => Get(Unwrap(config), ReviewProtocolKey) = ClaimedProtocol(LastResolved)
    /\ \A r \in WrittenRemotes \cup CollectedRemotes :
          r.review_protocol = ClaimedProtocol(r.name)

\* The context a project is to get, and the template rendered against it.
FoundRemotes(name) == {x \in 1..Len(manifest.remotes) : manifest.remotes[x].name = name}
FoundRemote(name) ==
    manifest.remotes[CHOOSE x \in FoundRemotes(name) : \A y \in FoundRemotes(name) : y <= x]
ClaimedContext(project) ==
    LET found == IsSome(project.remote) /\ FoundRemotes(Unwrap(project.remote)) # {}
        keys == {"project_name"}
                  \cup (IF IsSome(project.remote) THEN {"remote_name"} ELSE {})
                  \cup (IF found THEN {"fetch_url"} ELSE {})
                  \cup (IF found /\ IsSome(FoundRemote(Unwrap(project.remote)).pushurl)
                        THEN {"push_url"} ELSE {})
    IN [v \in keys |->
           CASE v = "project_name" -> project.name
             [] v = "remote_name" -> Unwrap(project.remote)
             [] v = "fetch_url" -> FoundRemote(Unwrap(project.remote)).fetch
             [] v = "push_url" -> Unwrap(FoundRemote(Unwrap(project.remote)).pushurl)]
Rendered(t, context) ==
    Flatten([n \in 1..Len(t) |->
        IF \E v \in DOMAIN context : t[n] = Placeholder(v)
        THEN context[CHOOSE v \in DOMAIN context : t[n] = Placeholder(v)]
        ELSE <<t[n]>>])
AllResolve ==
    \A x \in 1..Len(manifest.projects) :
        TemplateVars(template) \subseteq DOMAIN ClaimedContext(manifest.projects[x])
RenderedUpTo(n) ==
    Flatten([x \in 1..n |-> Rendered(template, ClaimedContext(manifest.projects[x]))])

\* The context of project x holds a value that the substitution rejects.
ForbiddenContext(x) ==
    \E v \in DOMAIN ClaimedContext(manifest.projects[x]) :
        HasForbidden(ClaimedContext(manifest.projects[x])[v])

\* C10 (as claimed): a bulk run whose template's placeholders all resolve
\* ends well, and its output is the template rendered once for each project,
\* in declaration order and with nothing between.
C10_Original ==
    (IsBulk /\ pc = "done" /\ AllResolve) =>
        /\ result = "Ok"
        /\ stdout = RenderedUpTo(Len(manifest.projects))

\* C10 (amended): in a bulk run whose template's placeholders all resolve,
\* the output is the template rendered for each project passed, in
\* declaration order and with nothing between, against the claimed context;
\* no project passed has a value that holds $, { or }.  The run ends well
\* after the last project, or fails with a substitution error at the first
\* project whose context has such a value, and for nothing else: a remote
\* that is not found fails no project.
C10_BulkOutput ==
    (IsBulk /\ pc \in {"bulk", "done"} /\ AllResolve) =>
        /\ stdout = RenderedUpTo(k - 1)
        /\ \A x \in 1..(k - 1) : ~ForbiddenContext(x)
        /\ pc = "done" =>
              \/ result = "Ok" /\ k = Len(manifest.projects) + 1
              \/ /\ result = "Envsubst"
                 /\ k \in 1..Len(manifest.projects)
                 /\ ForbiddenContext(k)

\* A bulk run, with a template that names the remote, rendered its first
\* project, bound to a remote that is not found, and failed at its second,
\* whose remote's fetch URL holds a $.
C10_Witness ==
    /\ IsBulk /\ pc = "done" /\ result = "Envsubst"
    /\ AllResolve
    /\ Len(manifest.projects) = 2
    /\ k = 2
    /\ "remote_name" \in TemplateVars(template)
    /\ IsSome(manifest.projects[1].remote)
    /\ FoundRemotes(Unwrap(manifest.projects[1].remote)) = {}
    /\ ForbiddenContext(2)
    /\ stdout = RenderedUpTo(1)
    /\ stdout # <<>>

\* A bulk run ended well over two projects, the first bound to a remote that
\* is not found and the second to a remote with a push URL, with a template
\* that names the remote.
C10_RenderedAll ==
    /\ IsBulk /\ pc = "done" /\ result = "Ok"
    /\ AllResolve
    /\ Len(manifest.projects) = 2
    /\ "remote_name" \in TemplateVars(template)
    /\ IsSome(manifest.projects[1].remote)
    /\ FoundRemotes(Unwrap(manifest.projects[1].remote)) = {}
    /\ "push_url" \in DOMAIN ClaimedContext(manifest.projects[2])
    /\ stdout = RenderedUpTo(2)
    /\ stdout # <<>>

====
